---- MODULE Spec2Model ----
(***************************************************************************)
(* A model of the symbolic perturbation engine of src/exact/perturb.cpp:   *)
(* the monomial enumerator, the two interpolators, the sign driver and the *)
(* brute-force comparison of perturbed_sign_test.                          *)
(*                                                                         *)
(* Each routine keeps its state in one record-valued variable whose fields *)
(* carry the names the source gives its locals.                            *)
(***************************************************************************)
EXTENDS Integers, Sequences, FiniteSets, TLC

VARIABLES mono,     \* one call of monomials(degree, variables)
          interp,   \* one call of in_place_interpolating_polynomial_test
          call      \* perturbed_sign calls and the harness around them

vars == <<mono, interp, call>>

(***************************************************************************)
(* Bounds of the model.                                                    *)
(***************************************************************************)
\* Largest degree handed to monomials() with more than one variable.
MaxDegree == 3
\* Largest degree handed to monomials() with at most one variable.
MaxWideDegree == 21
\* Largest degree handed to monomials() with no variable at all.
MaxZeroVarDegree == 66
\* Largest number of variables handed to monomials().
MaxVariables == 3

(***************************************************************************)
(* Small arithmetic helpers.                                               *)
(***************************************************************************)
RECURSIVE Pow(_, _)
Pow(b, e) == IF e = 0 THEN 1 ELSE b * Pow(b, e - 1)

Abs(x) == IF x < 0 THEN -x ELSE x

Sgn(x) == IF x > 0 THEN 1 ELSE IF x < 0 THEN -1 ELSE 0

RECURSIVE Gcd(_, _)
Gcd(a, b) == IF b = 0 THEN a ELSE Gcd(b, a % b)

RECURSIVE Factorial(_)
Factorial(n) == IF n = 0 THEN 1 ELSE n * Factorial(n - 1)

RECURSIVE SumSeq(_)
SumSeq(s) == IF s = <<>> THEN 0 ELSE Head(s) + SumSeq(Tail(s))

Zeros(n) == [x \in 1..n |-> 0]

\* The binomial coefficient C(n, k), for reference.
RECURSIVE ChooseUp(_, _)
ChooseUp(n, k) == IF k = 0 THEN 1 ELSE (ChooseUp(n, k - 1) * (n - k + 1)) \div k

Choose(n, k) == IF k < 0 \/ k > n THEN 0 ELSE ChooseUp(n, IF 2 * k > n THEN n - k ELSE k)

(***************************************************************************)
(* uint64_t, as four 16-bit limbs, least significant first.  Products and  *)
(* quotients wrap and truncate as the machine type does.                   *)
(***************************************************************************)
Limb == 65536

U64(n) == <<n % Limb, (n \div Limb) % Limb, 0, 0>>

\* x * s mod 2^64, for 0 <= s < 2^15
U64Mul(x, s) ==
  LET p1 == x[1] * s
      p2 == x[2] * s + (p1 \div Limb)
      p3 == x[3] * s + (p2 \div Limb)
      p4 == x[4] * s + (p3 \div Limb)
  IN  <<p1 % Limb, p2 % Limb, p3 % Limb, p4 % Limb>>

U64IsZero(x) == x = <<0, 0, 0, 0>>

\* x shifted left by one bit, limb by limb from limb i on
RECURSIVE ShiftLeft(_, _, _)
ShiftLeft(x, i, carry) ==
  IF i > Len(x) THEN <<>>
  ELSE LET p == 2 * x[i] + carry
       IN  <<p % Limb>> \o ShiftLeft(x, i + 1, p \div Limb)

RECURSIVE LimbsGeq(_, _, _)
LimbsGeq(a, b, n) ==
  IF n = 0 THEN TRUE
  ELSE IF a[n] # b[n] THEN a[n] > b[n]
  ELSE LimbsGeq(a, b, n - 1)

\* a - b on five limbs, for a >= b
LimbsSub(a, b) ==
  LET d1 == a[1] - b[1]
      d2 == a[2] - b[2] - (IF d1 < 0 THEN 1 ELSE 0)
      d3 == a[3] - b[3] - (IF d2 < 0 THEN 1 ELSE 0)
      d4 == a[4] - b[4] - (IF d3 < 0 THEN 1 ELSE 0)
      d5 == a[5] - b[5] - (IF d4 < 0 THEN 1 ELSE 0)
  IN  <<d1 % Limb, d2 % Limb, d3 % Limb, d4 % Limb, d5 % Limb>>

\* Restoring division on the register pair (remainder : dividend).  reg holds
\* the dividend in limbs 1..4 and the remainder in limbs 5..9; after 64
\* shifts limbs 1..4 hold the quotient.
RECURSIVE U64DivBits(_, _, _)
U64DivBits(reg, b5, n) ==
  IF n = 0 THEN reg
  ELSE LET s  == ShiftLeft(reg, 1, 0)
           hi == SubSeq(s, 5, 9)
       IN  IF LimbsGeq(hi, b5, 5)
           THEN U64DivBits(<<s[1] + 1, s[2], s[3], s[4]>> \o LimbsSub(hi, b5), b5, n - 1)
           ELSE U64DivBits(s, b5, n - 1)

\* floor(a / b) for b # 0
U64Div(a, b) == SubSeq(U64DivBits(a \o <<0, 0, 0, 0, 0>>, b \o <<0>>, 64), 1, 4)

\* num <= (1<<20)
U64LeqCap(x) == x[3] = 0 /\ x[4] = 0 /\ (x[2] < 16 \/ (x[2] = 16 /\ x[1] = 0))

U64ToInt(x) == x[1] + Limb * x[2]

(***************************************************************************)
(* monomials(degree, variables)                                            *)
(***************************************************************************)
\* for (int k=1;k<=degree;k++) { num *= k+variables; den *= k; }
\* (the test on the limb counts makes each iteration's products be computed
\* before the next iteration starts)
RECURSIVE CountLoop(_, _, _, _, _)
CountLoop(k, degree, variables, num, den) ==
  IF k > degree \/ Len(num) + Len(den) # 8 THEN [num |-> num, den |-> den]
  ELSE CountLoop(k + 1, degree, variables, U64Mul(num, k + variables), U64Mul(den, k))

MonoIdle == [pc |-> "idle"]

\* MonoEnter allocating no row when there is no variable.
MonoEnter_NoRowWithoutVariables(degree, variables) ==
  [pc |-> IF variables = 0 THEN "done" ELSE "for_d", degree |-> degree,
   variables |-> variables, num |-> U64(Choose(degree + variables, variables)),
   den |-> U64(1),
   results |-> IF variables = 0 THEN <<>>
               ELSE [r \in 1..Choose(degree + variables, variables) |-> Zeros(variables)],
   next |-> 0, alpha |-> Zeros(variables), d |-> 0, i |-> 0, left |-> 0]

\* Entry of monomials(): count the rows, check the cap, allocate the table.
MonoEnter(degree, variables) ==
  LET c    == CountLoop(1, degree, variables, U64(1), U64(1))
      base == [pc |-> "crash", degree |-> degree, variables |-> variables,
               num |-> c.num, den |-> c.den, results |-> <<>>,
               next |-> 0, alpha |-> Zeros(variables), d |-> 0, i |-> 0, left |-> 0]
  IN  IF U64IsZero(c.den) THEN base     \* integer division by zero
      ELSE LET q == U64Div(c.num, c.den)
           IN  IF ~U64LeqCap(q) THEN [base EXCEPT !.pc = "assert_failed", !.num = q]
               ELSE [base EXCEPT !.pc = IF variables = 0 THEN "done" ELSE "for_d",
                                 !.num = q,
                                 !.results = [r \in 1..U64ToInt(q) |-> Zeros(variables)]]

\* ForDegree with the degrees enumerated downwards (left = degree - d).
ForDegree_Descending(s) ==
  IF s.d <= s.degree
  THEN {[s EXCEPT !.pc = "inner", !.i = 0, !.left = s.degree - s.d, !.alpha[1] = 0]}
  ELSE {[s EXCEPT !.pc = "done"]}

\* Head of for (int d=0;d<=degree;d++), and assert(next==results.m) after it.
\* The assert is compiled out under NDEBUG, so a failing one either aborts
\* or is not there.
ForDegree(s) ==
  IF s.d <= s.degree
  THEN {[s EXCEPT !.pc = "inner", !.i = 0, !.left = s.d, !.alpha[1] = 0]}
  ELSE IF s.next = Len(s.results)
       THEN {[s EXCEPT !.pc = "done"]}
       ELSE {[s EXCEPT !.pc = "abort"], [s EXCEPT !.pc = "done"]}

\* if (i<variables-1) i++;
TraverseDown(s) == {[s EXCEPT !.i = s.i + 1]}

\* alpha[i] = left; results[next++] = alpha;  A store past the last row is
\* undefined: the build either traps or writes outside the table.
AddMonomial(s) ==
  LET a == [s.alpha EXCEPT ![s.i + 1] = s.left]
  IN  IF s.next < Len(s.results)
      THEN {[s EXCEPT !.pc = "up", !.alpha = a, !.results[s.next + 1] = a,
                      !.next = s.next + 1]}
      ELSE {[s EXCEPT !.pc = "crash", !.alpha = a],
            [s EXCEPT !.pc = "up", !.alpha = a, !.next = s.next + 1]}

\* One iteration of the inner for (;;) that traverses up.
TraverseUp(s) ==
  IF s.i = 0
  THEN {[s EXCEPT !.pc = "for_d", !.i = -1, !.d = s.d + 1]}        \* goto end
  ELSE IF s.left = 0
       THEN {[s EXCEPT !.i = s.i - 1, !.left = s.alpha[s.i], !.alpha[s.i] = 0]}
       ELSE {[s EXCEPT !.pc = "inner", !.i = s.i - 1, !.left = s.left - 1,
                       !.alpha[s.i] = s.alpha[s.i] + 1]}

MonoSuccessors(s) ==
  CASE s.pc = "for_d" -> ForDegree(s)
    [] s.pc = "inner" /\ s.i < s.variables - 1 -> TraverseDown(s)
    [] s.pc = "inner" /\ s.i >= s.variables - 1 -> AddMonomial(s)
    [] s.pc = "up" -> TraverseUp(s)
    [] OTHER -> {}

MonoStep(s) == CHOOSE t \in MonoSuccessors(s) : t.pc # "crash" /\ t.pc # "abort"

\* At most n steps of the enumeration.
RECURSIVE MonoRunSteps(_, _)
MonoRunSteps(s, n) ==
  IF n = 0 \/ MonoSuccessors(s) = {} THEN s ELSE MonoRunSteps(MonoStep(s), n - 1)

\* The enumeration run to its end, a chunk of steps at a time.
RECURSIVE MonoRun(_)
MonoRun(s) ==
  IF MonoSuccessors(s) = {} THEN s ELSE MonoRun(MonoRunSteps(s, 16))

\* The table monomials(degree, variables) returns.
monomials(degree, variables) == MonoRun(MonoEnter(degree, variables)).results

(***************************************************************************)
(* The precomputed Vandermonde tables.                                     *)
(***************************************************************************)
\* sigma(n,k) = tau_{n-k}(n):  sigma(n,n) = 1,
\* sigma(n+1,k+1) = sigma(n,k) - n*sigma(n,k+1)
RECURSIVE sigma(_, _)
sigma(n, k) ==
  IF k > n \/ k < 0 THEN 0
  ELSE IF n = k THEN 1
  ELSE IF k = 0 THEN 0
  ELSE sigma(n - 1, k - 1) - (n - 1) * sigma(n - 1, k)

\* Row k of the inverse of the k x k matrix V_ij = j^i, scaled by k!
lower_triangle(k, i) == (IF (k - i) % 2 = 0 THEN 1 ELSE -1) * Choose(k, i)

(***************************************************************************)
(* Exact rationals (mpq_t): <<numerator, denominator>> in canonical form.  *)
(***************************************************************************)
mpq_canonicalize(num, den) ==
  LET g == Gcd(Abs(num), den) IN <<num \div g, den \div g>>

mpq_sub(a, b) == mpq_canonicalize(a[1] * b[2] - b[1] * a[2], a[2] * b[2])

mpq_add(a, b) == mpq_canonicalize(a[1] * b[2] + b[1] * a[2], a[2] * b[2])

mpq_mul(a, b) == mpq_canonicalize(a[1] * b[1], a[2] * b[2])

mpq_sgn(a) == Sgn(a[1])

\* Faster division of rationals by ints
mpq_div_si(x, n) ==
  LET gcd == Gcd(Abs(x[1]), Abs(n))
  IN  <<x[1] \div gcd, x[2] * (n \div gcd)>>

(***************************************************************************)
(* in_place_interpolating_polynomial(degree, lambda, A)                    *)
(***************************************************************************)
\* powers[i] = (degree+1)^i
powers(degree, i) == Pow(degree + 1, i)

\* f = sum_i powers[i]*lambda(k,i), for one row
RECURSIVE FlatIndex(_, _, _)
FlatIndex(degree, row, i) ==
  IF i > Len(row) THEN 0
  ELSE powers(degree, i - 1) * row[i] + FlatIndex(degree, row, i + 1)

\* Entry: build powers, from_flat, to_flat (16-bit entries, filled with -1)
\* and the bookkeeping pairs info[k] = (0, lambda(k,0)).
InterpEnter(degree, lambda, A) ==
  LET n  == IF lambda = <<>> THEN 0 ELSE Len(lambda[1])
      m  == Len(lambda)
      ff == [k \in 1..m |-> FlatIndex(degree, lambda[k], 1)]
      tf == [f \in 0..(powers(degree, n) - 1) |->
               IF \E k \in 1..m : ff[k] = f
               THEN ((CHOOSE k \in 1..m : ff[k] = f /\ \A k2 \in 1..m : ff[k2] = f => k2 <= k) - 1)
                      % 65536
               ELSE 65535]
  IN  [pc |-> IF degree >= 1 /\ m >= 1 THEN "divided" ELSE "newton",
       degree |-> degree, lambda |-> lambda, A |-> A, n |-> n,
       from_flat |-> ff, to_flat |-> tf,
       info |-> [k \in 1..m |-> <<0, IF n > 0 THEN lambda[k][1] ELSE 0>>],
       pass |-> 1, k |-> IF degree >= 1 /\ m >= 1 THEN m - 1 ELSE 0]

\* while (!I.y) { if (++I.x==n) goto next_pass; I.y = lambda(k,I.x); }
RECURSIVE AdvanceCursor(_, _, _)
AdvanceCursor(I, row, n) ==
  IF I[2] # 0 THEN I
  ELSE IF I[1] + 1 = n THEN <<n, 0>>
  ELSE AdvanceCursor(<<I[1] + 1, row[I[1] + 2]>>, row, n)

\* NextPass that starts the later passes one row below the top.
NextPass_SkipsLastRow(s) ==
  IF s.pass + 1 <= s.degree
  THEN [s EXCEPT !.pass = s.pass + 1,
                 !.k = IF Len(s.lambda) >= 2 THEN Len(s.lambda) - 2 ELSE 0]
  ELSE [s EXCEPT !.pc = "newton", !.pass = s.pass + 1, !.k = 0]

\* Where the loops go after row k of this pass: the next row down, the next
\* pass, or on to the Newton-to-monomial conversion.
NextPass(s) ==
  IF s.pass + 1 <= s.degree
  THEN [s EXCEPT !.pass = s.pass + 1, !.k = Len(s.lambda) - 1]
  ELSE [s EXCEPT !.pc = "newton", !.pass = s.pass + 1, !.k = 0]

\* DividedDifference that always takes the child along variable 0.
DividedDifference_WrongChild(s) ==
  LET row == s.lambda[s.k + 1]
      I   == AdvanceCursor(s.info[s.k + 1], row, s.n)
  IN  IF I[1] = s.n
      THEN NextPass([s EXCEPT !.info[s.k + 1] = I])
      ELSE LET y     == I[2] - 1
               child == s.to_flat[IF s.from_flat[s.k + 1] - 1 < 0 THEN 0
                                  ELSE s.from_flat[s.k + 1] - 1]
               t     == [s EXCEPT !.info[s.k + 1] = <<I[1], y>>]
           IN  IF child >= Len(s.lambda)
               THEN [t EXCEPT !.pc = "crash"]
               ELSE LET u == [t EXCEPT !.A[s.k + 1] =
                                mpq_div_si(mpq_sub(s.A[s.k + 1], s.A[child + 1]),
                                           row[I[1] + 1] - y)]
                    IN  IF s.k = 0 THEN NextPass(u) ELSE [u EXCEPT !.k = s.k - 1]

\* One iteration of the body of for (int k=lambda.m-1;k>=0;k--) in a pass.
DividedDifference(s) ==
  LET row == s.lambda[s.k + 1]
      I   == AdvanceCursor(s.info[s.k + 1], row, s.n)
  IN  IF I[1] = s.n
      THEN NextPass([s EXCEPT !.info[s.k + 1] = I])                 \* goto next_pass
      ELSE LET y     == I[2] - 1
               child == s.to_flat[s.from_flat[s.k + 1] - powers(s.degree, I[1])]
               t     == [s EXCEPT !.info[s.k + 1] = <<I[1], y>>]
           IN  IF child >= Len(s.lambda)
               THEN [t EXCEPT !.pc = "crash"]                       \* A[child] out of range
               ELSE LET u == [t EXCEPT !.A[s.k + 1] =
                                mpq_div_si(mpq_sub(s.A[s.k + 1], s.A[child + 1]),
                                           row[I[1] + 1] - y)]
                    IN  IF s.k = 0 THEN NextPass(u) ELSE [u EXCEPT !.k = s.k - 1]

\* taus = prod_i sigma(beta[i],gamma[i]) over gamma[i] < beta[i]
RECURSIVE Taus(_, _, _)
Taus(beta, gamma, i) ==
  IF i > Len(beta) THEN 1
  ELSE (IF gamma[i] < beta[i] THEN sigma(beta[i], gamma[i]) ELSE 1) * Taus(beta, gamma, i + 1)

\* for (int kk=0;kk<k;kk++): A[kk] += taus*A[k] unless some gamma[i] > beta[i]
RECURSIVE NewtonRow(_, _, _, _)
NewtonRow(A, lambda, k, kk) ==
  IF kk >= k THEN A
  ELSE LET beta  == lambda[k + 1]
           gamma == lambda[kk + 1]
       IN  IF \E i \in 1..Len(beta) : gamma[i] > beta[i]
           THEN NewtonRow(A, lambda, k, kk + 1)                     \* goto skip
           ELSE NewtonRow([A EXCEPT ![kk + 1] =
                             mpq_add(A[kk + 1],
                                     mpq_mul(<<Taus(beta, gamma, 1), 1>>, A[k + 1]))],
                          lambda, k, kk + 1)

\* One iteration of for (int k=0;k<lambda.m;k++) of the conversion
\* from the Newton basis to the monomial basis.
NewtonToMonomial(s) ==
  IF s.k >= Len(s.lambda) THEN [s EXCEPT !.pc = "done"]
  ELSE [s EXCEPT !.A = NewtonRow(s.A, s.lambda, s.k, 0), !.k = s.k + 1]

InterpStep(s) ==
  CASE s.pc = "divided" -> DividedDifference(s)
    [] s.pc = "newton" -> NewtonToMonomial(s)
    [] OTHER -> s

RECURSIVE InterpRunSteps(_, _)
InterpRunSteps(s, n) ==
  IF n = 0 \/ s.pc \notin {"divided", "newton"} THEN s
  ELSE InterpRunSteps(InterpStep(s), n - 1)

RECURSIVE InterpRun(_)
InterpRun(s) ==
  IF s.pc \notin {"divided", "newton"} THEN s ELSE InterpRun(InterpRunSteps(s, 16))

\* The coefficient array the routine leaves in A.
in_place_interpolating_polynomial(degree, lambda, A) ==
  InterpRun(InterpEnter(degree, lambda, A)).A

(***************************************************************************)
(* scaled_univariate_in_place_interpolating_polynomial(degree, A)          *)
(***************************************************************************)
\* for (int i=0;i<k;i++) A[k] += lower_triangle(k+1,i+1)*A[i];
RECURSIVE LowerRow(_, _, _)
LowerRow(A, k, i) ==
  IF i >= k THEN A[k + 1]
  ELSE lower_triangle(k + 1, i + 1) * A[i + 1] + LowerRow(A, k, i + 1)

\* LowerPass that never updates factor.
RECURSIVE LowerPass_ConstantFactor(_, _, _)
LowerPass_ConstantFactor(A, k, factor) ==
  IF k < 0 THEN A
  ELSE LowerPass_ConstantFactor([A EXCEPT ![k + 1] = LowerRow(A, k, 0) * factor], k - 1, factor)

\* LowerPass that updates factor before using it.
RECURSIVE LowerPass_FactorFirst(_, _, _)
LowerPass_FactorFirst(A, k, factor) ==
  IF k < 0 THEN A
  ELSE LowerPass_FactorFirst([A EXCEPT ![k + 1] = LowerRow(A, k, 0) * (factor * (k + 1))],
                             k - 1, factor * (k + 1))

\* Multiply by the inverse of the lower triangular part, k = degree-1 .. 0
RECURSIVE LowerPass(_, _, _)
LowerPass(A, k, factor) ==
  IF k < 0 THEN A
  ELSE LowerPass([A EXCEPT ![k + 1] = LowerRow(A, k, 0) * factor], k - 1, factor * (k + 1))

\* for (int i=0;i<k;i++) A[i] += sigma(k+1,i+1)*A[k];
UpperRow(A, k) ==
  [i \in 1..Len(A) |-> IF i - 1 < k THEN A[i] + sigma(k + 1, i) * A[k + 1] ELSE A[i]]

\* Multiply by the inverse of the special upper triangular part, k = 0 .. degree-1
RECURSIVE UpperPass(_, _, _)
UpperPass(A, k, degree) ==
  IF k >= degree THEN A ELSE UpperPass(UpperRow(A, k), k + 1, degree)

scaled_univariate_in_place_interpolating_polynomial(degree, A) ==
  UpperPass(LowerPass(A, degree - 1, 1), 0, degree)

(***************************************************************************)
(* in_place_interpolating_polynomial_test(degree, lambda, coefs)           *)
(***************************************************************************)
\* evaluate(lambda, coefs, inputs) = sum_k coefs[k] * prod_i inputs[i]^lambda(k,i)
RECURSIVE PowerProduct(_, _, _)
PowerProduct(row, inputs, i) ==
  IF i > Len(row) THEN 1 ELSE Pow(inputs[i], row[i]) * PowerProduct(row, inputs, i + 1)

RECURSIVE evaluate_from(_, _, _, _)
evaluate_from(lambda, coefs, inputs, k) ==
  IF k > Len(lambda) THEN 0
  ELSE coefs[k] * PowerProduct(lambda[k], inputs, 1) + evaluate_from(lambda, coefs, inputs, k + 1)

evaluate(lambda, coefs, inputs) == evaluate_from(lambda, coefs, inputs, 1)

(***************************************************************************)
(* The pseudorandom perturbation sequence.                                 *)
(***************************************************************************)
\* exact::log_bound: perturbation components lie in [-2^log_bound, 2^log_bound).
\* The model keeps the field arithmetic of the source on a narrow field.
log_bound == 1

\* One 32-bit field of the block the counter-mode function returns for the
\* counter (level, i) under the fixed key of the generator.
ThreefryWord(key, level, i, a) ==
  LET x0 == (key * 83 + level * 152 + i * 22 + a * 140 + 203) % 251
      x1 == (x0 * x0 + 7 * x0 + 3) % 241
  IN  ((3 * x1 * x1 + x1 + 1) % 65536) \div 4

threefry(key, level, i) == [a \in 1..4 |-> ThreefryWord(key, level, i, a - 1)]

\* result[a] = (cast(bits>>32*a)&(2*limit-1))-limit
perturbation(m, key, level, i) ==
  LET bits  == threefry(key, level, i)
      limit == Pow(2, log_bound)
  IN  [a \in 1..m |-> (bits[a] % (2 * limit)) - limit]

(***************************************************************************)
(* Predicates.  A predicate is a record; predicate(p, Z) is its value on   *)
(* the points Z.  p.arg lists, for each argument of the underlying         *)
(* polynomial, the position in Z it is read from, so that composing a      *)
(* predicate with a permutation of its points changes p.arg only.          *)
(***************************************************************************)
edet2(a, b) == a[1] * b[2] - a[2] * b[1]

nasty_pow(nasty_degree, x) == Pow(x, nasty_degree)

\* nasty_predicate for Vector<In,1> and Vector<In,2>
nasty_predicate(m, key, nasty_degree, nasty_index, Z) ==
  IF m = 1 THEN nasty_pow(nasty_degree, Z[1][1])
  ELSE nasty_pow(nasty_degree, edet2(Z[1], perturbation(2, key, 1, nasty_index)))

RECURSIVE Dot(_, _, _)
Dot(w, z, a) == IF a > Len(w) THEN 0 ELSE w[a] * z[a] + Dot(w, z, a + 1)

RECURSIVE AffineForm(_, _, _)
AffineForm(w, Z, i) == IF i > Len(w) THEN 0 ELSE Dot(w[i], Z[i], 1) + AffineForm(w, Z, i + 1)

PredicateBase(p, Z) ==
  CASE p.kind = "nasty"  -> nasty_predicate(Len(Z[1]), p.key, p.nasty_degree, p.nasty_index, Z)
    [] p.kind = "affine" -> Pow(p.c + AffineForm(p.w, Z, 1), p.power)
    [] p.kind = "orient" -> edet2(Z[1], Z[2])

predicate(p, Z) == PredicateBase(p, [k \in 1..Len(Z) |-> Z[p.arg[k]]])

\* The predicate composed with the permutation perm of its points:
\* Compose(p, perm) on the points [i |-> Z[perm[i]]] is p on Z.
Compose(p, perm) ==
  [p EXCEPT !.arg = [k \in 1..Len(perm) |->
                       CHOOSE i \in 1..Len(perm) : perm[i] = p.arg[k]]]

(***************************************************************************)
(* perturbed_sign(predicate, degree, X)                                    *)
(***************************************************************************)
\* Largest perturbation level the model lets the escalation loop reach.
MaxLevel == 3

VecAdd(a, b) == [c \in 1..Len(a) |-> a[c] + b[c]]

VecScale(s, a) == [c \in 1..Len(a) |-> s * a[c]]

\* monomial_less_from that compares from the lowest level upwards.
RECURSIVE monomial_less_from_Ascending(_, _, _)
monomial_less_from_Ascending(a, b, i) ==
  LET k == Len(a) + 1 - i
  IN  IF i < 1 THEN FALSE
      ELSE IF a[k] # b[k] THEN a[k] > b[k]
      ELSE monomial_less_from_Ascending(a, b, i - 1)

\* The relative size ordering on infinitesimals
RECURSIVE monomial_less_from(_, _, _)
monomial_less_from(a, b, i) ==
  IF i < 1 THEN FALSE
  ELSE IF a[i] # b[i] THEN a[i] > b[i]
  ELSE monomial_less_from(a, b, i - 1)

monomial_less(a, b) == monomial_less_from(a, b, Len(a))

\* FirstPerturbations drawing the vector of a point from its position.
FirstPerturbations_ByPosition(m, key, X) ==
  [i \in 1..Len(X) |-> perturbation(m, key, 1, i - 1)]

\* Y[i] = perturbation<m>(1,X[i].x)
FirstPerturbations(m, key, X) == [i \in 1..Len(X) |-> perturbation(m, key, 1, X[i].x)]

\* Z[i] = X[i].y+(j+1)*Y[i], for the 0-based j of the source
FirstPoint(X, Y, j) == [i \in 1..Len(X) |-> VecAdd(X[i].y, VecScale(j + 1, Y[i]))]

\* AppendLevel that reallocates Y, so that the earlier slabs are zero.
AppendLevel_Reallocates(m, key, X, Y, d) ==
  LET n == Len(X)
  IN  [q \in 1..(d * n) |->
         IF q > (d - 1) * n THEN perturbation(m, key, d, X[q - (d - 1) * n].x)
         ELSE Zeros(m)]

\* AppendLevel that draws every level from level 1 of the sequence.
AppendLevel_RepeatsLevelOne(m, key, X, Y, d) ==
  LET n == Len(X)
  IN  [q \in 1..(d * n) |->
         IF q > (d - 1) * n THEN perturbation(m, key, 1, X[q - (d - 1) * n].x)
         ELSE Y[q]]

\* AppendLevel that puts the new level in front of the earlier ones.
AppendLevel_Prepends(m, key, X, Y, d) ==
  LET n == Len(X)
  IN  [q \in 1..(d * n) |->
         IF q <= n THEN perturbation(m, key, d, X[q].x)
         ELSE Y[q - n]]

\* Y.resize(d*n); Y[(d-1)*n+i] = perturbation<m>(d,X[i].x)
AppendLevel(m, key, X, Y, d) ==
  LET n == Len(X)
  IN  [q \in 1..(d * n) |->
         IF q > (d - 1) * n THEN perturbation(m, key, d, X[q - (d - 1) * n].x)
         ELSE Y[q]]

\* Z[i] = X[i].y + lambda(j,0)*Y[i] + sum_{v=1..d-1} lambda(j,v)*Y[v*n+i]
RECURSIVE LevelSum(_, _, _, _, _)
LevelSum(row, Y, n, i, v) ==
  IF v >= Len(row) THEN [c \in 1..Len(Y[1]) |-> 0]
  ELSE VecAdd(VecScale(row[v + 1], Y[v * n + i]), LevelSum(row, Y, n, i, v + 1))

LevelPoint(X, Y, row) ==
  [i \in 1..Len(X) |-> VecAdd(X[i].y, LevelSum(row, Y, Len(X), i, 0))]

\* FirstNonzeroSign scanning from the highest-order coefficient down.
RECURSIVE FirstNonzeroSign_FromTop(_, _)
FirstNonzeroSign_FromTop(values, j) ==
  LET k == Len(values) + 1 - j
  IN  IF k < 1 THEN 0
      ELSE IF values[k] # 0 THEN Sgn(values[k])
      ELSE FirstNonzeroSign_FromTop(values, j + 1)

\* The scan of round 1: the sign of the first nonzero entry.
RECURSIVE FirstNonzeroSign(_, _)
FirstNonzeroSign(values, j) ==
  IF j > Len(values) THEN 0
  ELSE IF values[j] # 0 THEN Sgn(values[j])
  ELSE FirstNonzeroSign(values, j + 1)

\* DominantSign with the arguments of monomial_less exchanged.
RECURSIVE DominantSign_Exchanged(_, _, _, _)
DominantSign_Exchanged(values, lambda, j, acc) ==
  IF j >= Len(values) THEN acc
  ELSE LET s == mpq_sgn(values[j + 1])
       IN  IF s # 0 /\ (acc[1] = 0 \/ monomial_less(lambda[j + 1], lambda[acc[2] + 1]))
           THEN DominantSign_Exchanged(values, lambda, j + 1, <<s, j>>)
           ELSE DominantSign_Exchanged(values, lambda, j + 1, acc)

\* DominantSign that keeps the first nonzero row it meets.
RECURSIVE DominantSign_KeepsFirst(_, _, _, _)
DominantSign_KeepsFirst(values, lambda, j, acc) ==
  IF j >= Len(values) THEN acc
  ELSE LET s == mpq_sgn(values[j + 1])
       IN  IF s # 0 /\ acc[1] = 0
           THEN DominantSign_KeepsFirst(values, lambda, j + 1, <<s, j>>)
           ELSE DominantSign_KeepsFirst(values, lambda, j + 1, acc)

\* The scan of an escalation round: <<sign, sign_j>> after rows 0..j-1.
RECURSIVE DominantSign(_, _, _, _)
DominantSign(values, lambda, j, acc) ==
  IF j >= Len(values) THEN acc
  ELSE LET s == mpq_sgn(values[j + 1])
       IN  IF s # 0 /\ (acc[1] = 0 \/ monomial_less(lambda[acc[2] + 1], lambda[j + 1]))
           THEN DominantSign(values, lambda, j + 1, <<s, j>>)
           ELSE DominantSign(values, lambda, j + 1, acc)

CallIdle == [pc |-> "idle"]

\* The state on entry to perturbed_sign<m>(predicate, degree, X).
SignEnter(job, m, key, p, degree, X, callno, first) ==
  [pc |-> "enter", job |-> job, m |-> m, key |-> key, predicate |-> p,
   degree |-> degree, X |-> X, Y |-> <<>>, values |-> <<>>, lambda |-> <<>>,
   d |-> 0, sign |-> 0, sign_j |-> -1, result |-> "none",
   callno |-> callno, first |-> first,
   i |-> 0, sX |-> <<>>, slow |-> <<>>]

\* Compute the first level of perturbations and
\* evaluate the polynomial at epsilon = 1, ..., degree.
FirstLevel(c) ==
  LET Y == FirstPerturbations(c.m, c.key, c.X)
  IN  [c EXCEPT !.pc = "first_interp", !.Y = Y,
                !.values = [j \in 1..c.degree |-> predicate(c.predicate, FirstPoint(c.X, Y, j - 1))]]

FirstInterpolate(c) ==
  [c EXCEPT !.pc = "first_sign",
            !.values = scaled_univariate_in_place_interpolating_polynomial(c.degree, c.values)]

\* FirstSign that hands over to the escalation loop at d = 2.
FirstSign_StartsAtTwo(c) ==
  LET sign == FirstNonzeroSign(c.values, 1)
  IN  IF sign # 0
      THEN [c EXCEPT !.pc = "returned", !.sign = sign, !.values = <<>>, !.result = (sign > 0)]
      ELSE [c EXCEPT !.pc = "level", !.sign = 0, !.values = <<>>, !.d = 2]

\* Compute sign, free the values, return if the sign is nonzero.
FirstSign(c) ==
  LET sign == FirstNonzeroSign(c.values, 1)
  IN  IF sign # 0
      THEN [c EXCEPT !.pc = "returned", !.sign = sign, !.values = <<>>, !.result = (sign > 0)]
      ELSE [c EXCEPT !.pc = "level", !.sign = 0, !.values = <<>>, !.d = 1]

\* Compute the next level of perturbations and
\* evaluate the polynomial at every point in an "easy corner".
NextLevel(c) ==
  LET Y      == AppendLevel(c.m, c.key, c.X, c.Y, c.d)
      lambda == monomials(c.degree, c.d)
  IN  [c EXCEPT !.pc = "interp", !.Y = Y, !.lambda = lambda,
                !.values = [j \in 1..Len(lambda) |->
                              <<predicate(c.predicate, LevelPoint(c.X, Y, lambda[j])), 1>>]]

Interpolate(c) ==
  [c EXCEPT !.pc = "scan",
            !.values = in_place_interpolating_polynomial(c.degree, c.lambda, c.values)]

\* Compute sign, free the values, return if the sign is nonzero, else d++.
ScanSign(c) ==
  LET r == DominantSign(c.values, c.lambda, 0, <<0, -1>>)
  IN  IF r[1] # 0
      THEN [c EXCEPT !.pc = "returned", !.sign = r[1], !.sign_j = r[2], !.values = <<>>,
                     !.result = (r[1] > 0)]
      ELSE [c EXCEPT !.pc = "level", !.sign = 0, !.sign_j = -1, !.values = <<>>,
                     !.d = c.d + 1]

(***************************************************************************)
(* perturbed_sign_test<m>(): the brute-force series after the fast answer. *)
(***************************************************************************)
\* The spacing of the powers of two that stand for the nested
\* infinitesimals: powers[i+1] = (degree+1)*powers[i]+128 in the source, where
\* 128 clears the width of a product of perturbations; here that width is
\* log_bound+2 bits.
ScaleBits == log_bound + 2

RECURSIVE TestPowers(_, _)
TestPowers(degree, i) == IF i = 0 THEN 0 ELSE (degree + 1) * TestPowers(degree, i - 1) + ScaleBits

\* One iteration of for (int i=0;i<=m+1;i++): add level i to sX, take the sign.
BruteStep(c) ==
  LET index == c.X[1].x
      shift == TestPowers(c.degree, c.m) - TestPowers(c.degree, c.i - 1)
      sX    == IF c.i = 0 THEN c.sX
               ELSE VecAdd(c.sX, VecScale(Pow(2, shift), perturbation(c.m, c.key, c.i, index)))
      slow  == Sgn(nasty_predicate(c.m, c.key, c.degree, index, <<sX>>))
  IN  [c EXCEPT !.sX = sX, !.slow = Append(c.slow, slow), !.i = c.i + 1,
                !.pc = IF c.i = c.m + 1 THEN "test_done" ELSE "brute"]

(***************************************************************************)
(* The calls the model makes.                                              *)
(***************************************************************************)
\* Largest point id, largest generator key, largest input coordinate,
\* largest weight or constant of an affine predicate, largest degree of a
\* univariate round trip, largest entry of a coefficient vector.
MaxId == 2
MaxKey == 2
MaxCoord == 1
MaxWeight == 1
MaxUniDegree == 5
MaxCoef == 2

MonoInputs ==
  {p \in (0..MaxZeroVarDegree) \X (0..MaxVariables) :
     \/ p[2] = 0
     \/ p[2] = 1 /\ p[1] <= MaxWideDegree
     \/ p[1] <= MaxDegree}

InitMonomials ==
  /\ \E p \in MonoInputs : mono = MonoEnter(p[1], p[2])
  /\ interp = [pc |-> "idle"]
  /\ call = CallIdle

MonoForDegree ==
  /\ mono.pc = "for_d"
  /\ mono' \in ForDegree(mono)
  /\ UNCHANGED <<interp, call>>

MonoTraverseDown ==
  /\ mono.pc = "inner" /\ mono.i < mono.variables - 1
  /\ mono' \in TraverseDown(mono)
  /\ UNCHANGED <<interp, call>>

MonoAddMonomial ==
  /\ mono.pc = "inner" /\ mono.i >= mono.variables - 1
  /\ mono' \in AddMonomial(mono)
  /\ UNCHANGED <<interp, call>>

MonoTraverseUp ==
  /\ mono.pc = "up"
  /\ mono' \in TraverseUp(mono)
  /\ UNCHANGED <<interp, call>>

NextMonomials == MonoForDegree \/ MonoTraverseDown \/ MonoAddMonomial \/ MonoTraverseUp

SpecMonomials == InitMonomials /\ [][NextMonomials]_vars

(***************************************************************************)
(* in_place_interpolating_polynomial_test as a process.                    *)
(***************************************************************************)
\* Coefficient vectors of length len: one nonzero entry, or a dense pattern.
CoefVectors(len) ==
  {[k \in 1..len |-> IF k = j THEN v ELSE 0] : j \in 1..len, v \in {1, -MaxCoef}}
  \cup {[k \in 1..len |-> ((a * k + b) % (2 * MaxCoef + 1)) - MaxCoef] :
          a \in 0..MaxCoef, b \in 0..MaxCoef}

InterpInputs ==
  {p \in (0..MaxUniDegree) \X (1..MaxVariables) :
     \/ p[2] = 1
     \/ p[2] = 2 /\ p[1] <= MaxDegree
     \/ p[1] < MaxDegree}

\* values_z[k] = evaluate(lambda,coefs,lambda[k]); values_q[k] = values_z[k]/1;
\* then the call of in_place_interpolating_polynomial is entered.
TestEvaluate(t) ==
  LET values_z == [k \in 1..Len(t.lambda) |-> evaluate(t.lambda, t.coefs, t.lambda[k])]
  IN  [t EXCEPT !.pc = "interpolate", !.values_z = values_z,
                !.ip = InterpEnter(t.degree, t.lambda,
                                   [k \in 1..Len(t.lambda) |-> <<values_z[k], 1>>])]

\* OTHER_ASSERT(!mpq_cmp_si(&values_q[k],coefs[k],1)) for every k
TestCompare(t) ==
  IF \E k \in 1..Len(t.lambda) : t.ip.A[k][1] # t.coefs[k] * t.ip.A[k][2]
  THEN [t EXCEPT !.pc = "assert_failed"]
  ELSE IF t.degree + 1 = Len(t.lambda) THEN [t EXCEPT !.pc = "univariate"]
  ELSE [t EXCEPT !.pc = "done"]

\* If we're univariate, compare against the specialized routine
TestUnivariate(t) ==
  LET shifted == [j \in 1..t.degree |-> t.values_z[j + 1] - t.values_z[1]]
      uni     == scaled_univariate_in_place_interpolating_polynomial(t.degree, shifted)
      scale   == Factorial(t.degree)
      z       == <<t.values_z[1] * scale>> \o uni
      ok      == \A k \in 1..Len(t.lambda) :
                   LET vq == mpq_canonicalize(t.ip.A[k][1] * scale, t.ip.A[k][2])
                   IN  vq[1] = z[k] /\ vq[2] = 1
  IN  [t EXCEPT !.pc = IF ok THEN "done" ELSE "assert_failed", !.values_z = z,
                !.compared = TRUE]

InitInterp ==
  /\ \E p \in InterpInputs :
       LET lambda == monomials(p[1], p[2])
       IN  \E coefs \in CoefVectors(Len(lambda)) :
             interp = [pc |-> "evaluate", degree |-> p[1], lambda |-> lambda,
                       coefs |-> coefs, values_z |-> <<>>, ip |-> [pc |-> "idle"],
                       compared |-> FALSE]
  /\ mono = MonoIdle
  /\ call = CallIdle

InterpEvaluate ==
  /\ interp.pc = "evaluate"
  /\ interp' = TestEvaluate(interp)
  /\ UNCHANGED <<mono, call>>

InterpDividedDifference ==
  /\ interp.pc = "interpolate" /\ interp.ip.pc = "divided"
  /\ interp' = [interp EXCEPT !.ip = DividedDifference(interp.ip)]
  /\ UNCHANGED <<mono, call>>

InterpNewtonToMonomial ==
  /\ interp.pc = "interpolate" /\ interp.ip.pc = "newton"
  /\ interp' = [interp EXCEPT !.ip = NewtonToMonomial(interp.ip)]
  /\ UNCHANGED <<mono, call>>

InterpCompare ==
  /\ interp.pc = "interpolate" /\ interp.ip.pc = "done"
  /\ interp' = TestCompare(interp)
  /\ UNCHANGED <<mono, call>>

InterpUnivariate ==
  /\ interp.pc = "univariate"
  /\ interp' = TestUnivariate(interp)
  /\ UNCHANGED <<mono, call>>

NextInterp ==
  \/ InterpEvaluate \/ InterpDividedDifference \/ InterpNewtonToMonomial
  \/ InterpCompare \/ InterpUnivariate

SpecInterp == InitInterp /\ [][NextInterp]_vars

(***************************************************************************)
(* perturbed_sign and perturbed_sign_test as a process.                    *)
(***************************************************************************)
Ids == 0..MaxId

Keys == 0..MaxKey

Coords(m) == [1..m -> 0..MaxCoord]

\* n points with distinct ids
Points(m, n) ==
  {X \in [1..n -> [x : Ids, y : Coords(m)]] :
     \A i \in 1..n : \A j \in 1..n : i < j => X[i].x < X[j].x}

Identity(n) == [k \in 1..n |-> k]

NoWeights == <<>>

AffinePredicates(m, n) ==
  {[kind |-> "affine", key |-> 0, nasty_degree |-> 0, nasty_index |-> 0,
    w |-> w, c |-> c, power |-> power, arg |-> Identity(n)] :
     w \in [1..n -> [1..m -> (-MaxWeight)..MaxWeight]],
     c \in (-MaxWeight)..MaxWeight, power \in 1..2}

OrientPredicate ==
  [kind |-> "orient", key |-> 0, nasty_degree |-> 0, nasty_index |-> 0,
   w |-> NoWeights, c |-> 0, power |-> 2, arg |-> Identity(2)]

NastyPredicate(key, degree, index) ==
  [kind |-> "nasty", key |-> key, nasty_degree |-> degree, nasty_index |-> index,
   w |-> NoWeights, c |-> 0, power |-> degree, arg |-> Identity(1)]

\* The predicates handed to perturbed_sign<m> with n points
Predicates(m, n) ==
  IF m * n <= 2 THEN AffinePredicates(m, n)
  ELSE IF m = 2 /\ n = 2 THEN {OrientPredicate}
  ELSE {}

\* for (const int degree : vec(1,2,3)); the model runs the planar harness up
\* to the square only.
HarnessDegrees(m) == IF m = 1 THEN {1, 2, 3} ELSE {1, 2}

Perms(n) == {f \in [1..n -> 1..n] : (\A k \in 1..n : \E i \in 1..n : f[i] = k) /\ f # Identity(n)}

InitSign ==
  /\ \E m \in 1..2 : \E key \in Keys :
       \/ \E n \in 1..2 : \E X \in Points(m, n) : \E p \in Predicates(m, n) :
            \E degree \in p.power..MaxDegree :
              call = SignEnter("sign", m, key, p, degree, X, 1, "none")
       \/ \E degree \in HarnessDegrees(m) : \E index \in Ids :
            call = SignEnter("test", m, key, NastyPredicate(key, degree, index), degree,
                             <<[x |-> index, y |-> Zeros(m)]>>, 1, "none")
  /\ mono = MonoIdle
  /\ interp = [pc |-> "idle"]

SignFirstLevel ==
  /\ call.pc = "enter"
  /\ call' = FirstLevel(call)
  /\ UNCHANGED <<mono, interp>>

SignFirstInterpolate ==
  /\ call.pc = "first_interp"
  /\ call' = FirstInterpolate(call)
  /\ UNCHANGED <<mono, interp>>

SignFirstSign ==
  /\ call.pc = "first_sign"
  /\ call' = FirstSign(call)
  /\ UNCHANGED <<mono, interp>>

SignNextLevel ==
  /\ call.pc = "level"
  /\ call.d <= MaxLevel
  /\ call' = NextLevel(call)
  /\ UNCHANGED <<mono, interp>>

SignInterpolate ==
  /\ call.pc = "interp"
  /\ call' = Interpolate(call)
  /\ UNCHANGED <<mono, interp>>

SignScanSign ==
  /\ call.pc = "scan"
  /\ call' = ScanSign(call)
  /\ UNCHANGED <<mono, interp>>

\* A second call on the same points in another order, with the predicate
\* composed with that reordering.
CallPermuted ==
  /\ call.pc = "returned" /\ call.job = "sign" /\ call.callno = 1
  /\ \E perm \in Perms(Len(call.X)) :
       call' = SignEnter("sign", call.m, call.key, Compose(call.predicate, perm),
                         call.degree, [i \in 1..Len(call.X) |-> call.X[perm[i]]],
                         2, call.result)
  /\ UNCHANGED <<mono, interp>>

\* const bool fast = perturbed_sign<m>(...); OTHER_ASSERT((degree&1) || fast);
TestFast ==
  /\ call.pc = "returned" /\ call.job = "test"
  /\ call' = IF call.degree % 2 = 1 \/ call.result
             THEN [call EXCEPT !.pc = "brute", !.i = 0, !.sX = Zeros(call.m)]
             ELSE [call EXCEPT !.pc = "assert_failed"]
  /\ UNCHANGED <<mono, interp>>

\* OTHER_ASSERT(slow==(i<m?0:2*fast-1)) ends the loop when it fails.
TestBrute ==
  /\ call.pc = "brute"
  /\ LET c == BruteStep(call)
         slow == c.slow[Len(c.slow)]
         want == IF call.i < call.m THEN 0 ELSE IF call.result THEN 1 ELSE -1
     IN  call' = IF slow = want THEN c ELSE [c EXCEPT !.pc = "assert_failed"]
  /\ UNCHANGED <<mono, interp>>

Next ==
  \/ SignFirstLevel \/ SignFirstInterpolate \/ SignFirstSign
  \/ SignNextLevel \/ SignInterpolate \/ SignScanSign
  \/ CallPermuted \/ TestFast \/ TestBrute

Spec == InitSign /\ [][Next]_vars

\* The calls followed to their end: the harness, and the calls on the line.
InitFair ==
  /\ \E key \in Keys :
       \/ \E n \in 1..2 : \E X \in Points(1, n) : \E p \in Predicates(1, n) :
            \E degree \in p.power..MaxDegree :
              /\ key = 0
              /\ call = SignEnter("sign", 1, key, p, degree, X, 1, "none")
       \/ \E m \in 1..2 : \E degree \in HarnessDegrees(m) : \E index \in Ids :
            call = SignEnter("test", m, key, NastyPredicate(key, degree, index), degree,
                             <<[x |-> index, y |-> Zeros(m)]>>, 1, "none")
  /\ mono = MonoIdle
  /\ interp = [pc |-> "idle"]

Steps ==
  \/ SignFirstLevel \/ SignFirstInterpolate \/ SignFirstSign \/ SignScanSign
  \/ CallPermuted \/ TestFast \/ TestBrute

\* A call runs to its end: nothing in perturbed_sign waits or yields.  For the
\* two steps that build and interpolate a whole table the condition is
\* written on the position of the call: each is enabled exactly at its
\* position and leaves it, so this is weak fairness of the step.
FairSpec ==
  /\ InitFair /\ [][Next]_vars
  /\ WF_vars(Steps)
  /\ []<>~(call.pc = "level" /\ call.d <= MaxLevel)
  /\ []<>~(call.pc = "interp")

(***************************************************************************)
(* Properties of monomials(), checked under SpecMonomials.                 *)
(***************************************************************************)
RowsDistinct(rows) ==
  \A a \in 1..Len(rows) : \A b \in 1..Len(rows) : a # b => rows[a] # rows[b]

\* a precedes b in lexicographic order of the tuple
RECURSIVE LexLess(_, _, _)
LexLess(a, b, i) ==
  IF i > Len(a) THEN FALSE
  ELSE IF a[i] # b[i] THEN a[i] < b[i]
  ELSE LexLess(a, b, i + 1)

RowCap == Pow(2, 20)

\* C8: for degree >= 0 and variables >= 1 with C(degree+variables, degree) below
\* the cap, monomials(degree, variables) returns exactly C(degree+variables,
\* degree) rows, pairwise distinct, each of component sum <= degree, row 0 the
\* all-zero multi-index; the call does not trap or fail an assertion.
C8_MonomialRows ==
  (mono.pc # "idle" /\ mono.variables >= 1
     /\ Choose(mono.degree + mono.variables, mono.variables) <= RowCap)
  => /\ mono.pc \notin {"crash", "abort", "assert_failed"}
     /\ mono.pc = "done"
          => /\ Len(mono.results) = Choose(mono.degree + mono.variables, mono.variables)
             /\ RowsDistinct(mono.results)
             /\ \A k \in 1..Len(mono.results) : SumSeq(mono.results[k]) <= mono.degree
             /\ mono.results[1] = Zeros(mono.variables)

\* C9: the rows stored so far, and so the rows returned, are in non-decreasing
\* total degree, and within one total degree in ascending lexicographic order.
C9_RowOrder ==
  mono.pc \notin {"idle", "crash", "assert_failed"}
  => LET filled == IF mono.next < Len(mono.results) THEN mono.next ELSE Len(mono.results)
     IN  \A a \in 1..filled : \A b \in 1..filled :
           a < b => \/ SumSeq(mono.results[a]) < SumSeq(mono.results[b])
                    \/ /\ SumSeq(mono.results[a]) = SumSeq(mono.results[b])
                       /\ LexLess(mono.results[a], mono.results[b], 1)

C9_Witness ==
  /\ mono.pc = "done" /\ mono.variables = 3 /\ mono.degree = 3
  /\ Len(mono.results) = 20 /\ mono.next = 20
  /\ mono.results[5] = <<0, 0, 2>> /\ mono.results[6] = <<0, 1, 1>>

\* C10 as stated: monomials(degree, 0) returns a matrix with zero rows.
C10_ZeroRows ==
  (mono.pc = "done" /\ mono.variables = 0) => Len(mono.results) = 0

\* C10 as amended: monomials(degree, 0) returns exactly one row, the empty
\* multi-index, for every degree from 0 to 65; from degree 66 on degree! is
\* zero mod 2^64 and the count divides by zero.
C10_OneEmptyRow ==
  (mono.pc # "idle" /\ mono.variables = 0)
  => IF mono.degree <= 65
     THEN mono.pc = "done" /\ mono.results = << <<>> >>
     ELSE mono.pc = "crash" /\ U64IsZero(mono.den)

C10_Witness ==
  mono.pc = "done" /\ mono.variables = 0 /\ mono.degree = 65 /\ Len(mono.results) = 1

(***************************************************************************)
(* The big-number slots of perturbed_sign: values[j] of round 1 (mpz) and  *)
(* of the escalation rounds (mpq), one loop iteration per step.  The       *)
(* numbers themselves are left out: an evaluation of the predicate returns *)
(* or throws, and a coefficient is zero or not.                            *)
(***************************************************************************)
\* A slot as the allocation leaves it: OTHER_RAW_ALLOCA, resize(m,false,false)
RawSlot == [st |-> "raw", inits |-> 0, clears |-> 0]

\* mpz_init*, init_set_steal, mpz_init_set_ui on slot j (0-based)
SlotInit(c, j) ==
  [c EXCEPT !.values[j + 1] = [st |-> "live", inits |-> @.inits + 1, clears |-> @.clears],
            !.fault = IF c.values[j + 1].st = "live" /\ c.fault = "none"
                      THEN "init_of_live" ELSE c.fault]

\* a read or write of slot j by mpz_sgn, mpq_sgn
SlotUse(c, j) ==
  [c EXCEPT !.fault = IF c.values[j + 1].st # "live" /\ c.fault = "none"
                      THEN "use_of_" \o c.values[j + 1].st ELSE c.fault]

\* the interpolation routines read and write every slot of the array
SlotUseAll(c) ==
  [c EXCEPT !.fault = IF (\E j \in 1..Len(c.values) : c.values[j].st # "live")
                         /\ c.fault = "none"
                      THEN "use_of_dead" ELSE c.fault]

\* mpz_clear, mpq_clear on slot j
SlotClear(c, j) ==
  [c EXCEPT !.values[j + 1] = [st |-> "cleared", inits |-> @.inits, clears |-> @.clears + 1],
            !.fault = IF c.values[j + 1].st # "live" /\ c.fault = "none"
                      THEN "clear_of_" \o c.values[j + 1].st ELSE c.fault]

\* const auto values = OTHER_RAW_ALLOCA(degree,__mpz_struct);
SlotsEnter(degree) ==
  [pc |-> "first_eval", degree |-> degree, d |-> 0, values |-> [j \in 1..degree |-> RawSlot],
   j |-> 0, sign |-> 0, fault |-> "none", lost |-> 0]

\* One iteration of a loop over the slots is done: on to the next slot, or
\* out of the loop to next.
SlotLoop(c, next) ==
  IF c.j + 1 < Len(c.values) THEN [c EXCEPT !.j = c.j + 1]
  ELSE [c EXCEPT !.j = 0, !.pc = next]

\* init_set_steal(&values[j],predicate(Z).n): the predicate is evaluated
\* first; if it throws, the frame is unwound with the slots as they are.
EvalSlot(c, outcome, next) ==
  IF outcome = "throws" THEN [c EXCEPT !.pc = "threw"]
  ELSE SlotLoop(SlotInit(c, c.j), next)

\* scaled_univariate_in_place_interpolating_polynomial(degree,values);
\* in_place_interpolating_polynomial(degree,lambda,values);
InterpolateSlots(c, next) == [SlotUseAll(c) EXCEPT !.pc = next, !.j = 0]

\* FirstScanSlot that returns from inside the loop.
FirstScanSlot_ReturnsAtBreak(c, nonzero) ==
  LET u == SlotUse(c, c.j)
  IN  IF nonzero THEN [u EXCEPT !.sign = 1, !.pc = "returned"]
      ELSE SlotLoop(u, "first_clear")

\* if (const int s = mpz_sgn(&values[j])) { sign = s; break; }
FirstScanSlot(c, nonzero) ==
  LET u == SlotUse(c, c.j)
  IN  IF nonzero THEN [u EXCEPT !.sign = 1, !.j = 0, !.pc = "first_clear"]
      ELSE SlotLoop(u, "first_clear")

\* if (const int s = mpq_sgn(&values[j])) { ... sign = s; sign_j = j; }
ScanSlot(c, nonzero) ==
  LET u == SlotUse(c, c.j)
  IN  SlotLoop(IF nonzero THEN [u EXCEPT !.sign = 1] ELSE u, "clear")

\* for (auto& v : values) mpz_clear(&v);  for (auto& v : values) mpq_clear(&v);
ClearSlot(c, next) == SlotLoop(SlotClear(c, c.j), next)

\* if (sign) return sign>0;  else on to round d = 1, or d++
ReturnOrEscalate(c) ==
  IF c.sign # 0 THEN [c EXCEPT !.pc = "returned"]
  ELSE [c EXCEPT !.pc = "resize", !.d = c.d + 1]

\* values.resize(lambda.m,false,false): lambda.m raw slots; what the old
\* slots still held is lost.
ResizeSlots(c) ==
  [c EXCEPT !.pc = "eval", !.j = 0,
            !.lost = c.lost + Cardinality({j \in 1..Len(c.values) : c.values[j].st = "live"}),
            !.values = [j \in 1..Choose(c.degree + c.d, c.d) |-> RawSlot]]

InitSlots ==
  /\ \E degree \in 1..MaxDegree : call = SlotsEnter(degree)
  /\ mono = MonoIdle
  /\ interp = [pc |-> "idle"]

SlotsFirstEval ==
  /\ call.pc = "first_eval"
  /\ \E outcome \in {"returns", "throws"} : call' = EvalSlot(call, outcome, "first_interp")
  /\ UNCHANGED <<mono, interp>>

SlotsFirstInterpolate ==
  /\ call.pc = "first_interp"
  /\ call' = InterpolateSlots(call, "first_scan")
  /\ UNCHANGED <<mono, interp>>

SlotsFirstScan ==
  /\ call.pc = "first_scan"
  /\ \E nonzero \in BOOLEAN : call' = FirstScanSlot(call, nonzero)
  /\ UNCHANGED <<mono, interp>>

SlotsFirstClear ==
  /\ call.pc = "first_clear"
  /\ call' = ClearSlot(call, "first_return")
  /\ UNCHANGED <<mono, interp>>

SlotsFirstReturn ==
  /\ call.pc = "first_return"
  /\ call' = ReturnOrEscalate(call)
  /\ UNCHANGED <<mono, interp>>

SlotsResize ==
  /\ call.pc = "resize" /\ call.d <= MaxLevel
  /\ call' = ResizeSlots(call)
  /\ UNCHANGED <<mono, interp>>

SlotsEval ==
  /\ call.pc = "eval"
  /\ \E outcome \in {"returns", "throws"} : call' = EvalSlot(call, outcome, "interp")
  /\ UNCHANGED <<mono, interp>>

SlotsInterpolate ==
  /\ call.pc = "interp"
  /\ call' = InterpolateSlots(call, "scan")
  /\ UNCHANGED <<mono, interp>>

SlotsScan ==
  /\ call.pc = "scan"
  /\ \E nonzero \in BOOLEAN : call' = ScanSlot(call, nonzero)
  /\ UNCHANGED <<mono, interp>>

SlotsClear ==
  /\ call.pc = "clear"
  /\ call' = ClearSlot(call, "return")
  /\ UNCHANGED <<mono, interp>>

SlotsReturn ==
  /\ call.pc = "return"
  /\ call' = ReturnOrEscalate(call)
  /\ UNCHANGED <<mono, interp>>

NextSlots ==
  \/ SlotsFirstEval \/ SlotsFirstInterpolate \/ SlotsFirstScan \/ SlotsFirstClear
  \/ SlotsFirstReturn \/ SlotsResize \/ SlotsEval \/ SlotsInterpolate \/ SlotsScan
  \/ SlotsClear \/ SlotsReturn

SpecSlots == InitSlots /\ [][NextSlots]_vars

(***************************************************************************)
(* The flat index map of in_place_interpolating_polynomial at the widths   *)
(* of the source: int powers, int from_flat, uint16_t to_flat.  to_flat is *)
(* kept by its size and the entries written; the others hold the fill -1.  *)
(***************************************************************************)
\* Largest number of variables of the one-degree tables the map is built for.
MaxFlatVariables == 32

Int32Max == (Limb \div 2 - 1) * Limb + (Limb - 1)

\* a * b in a 32-bit int that wraps, for 0 <= b < 2^15
Mul32Wrap(a, b) ==
  LET lo == (a % Limb) * b
      hi == ((a \div Limb) % Limb) * b + lo \div Limb
      l  == lo % Limb
      h  == hi % Limb
  IN  IF h >= Limb \div 2 THEN (h - Limb) * Limb + l ELSE h * Limb + l

\* a + b in a 32-bit int that wraps
Add32Wrap(a, b) ==
  LET lo == (a % Limb) + (b % Limb)
      hi == ((a \div Limb) % Limb) + ((b \div Limb) % Limb) + lo \div Limb
      l  == lo % Limb
      h  == hi % Limb
  IN  IF h >= Limb \div 2 THEN (h - Limb) * Limb + l ELSE h * Limb + l

\* The product p * b of nonnegative ints does not fit an int
Overflows32(p, b) == p > 0 /\ b > 0 /\ p > Int32Max \div b

\* for (int i=0;i<n;i++) f += powers[i]*lambda(k,i);  from column i on
\* (the test on f makes each sum be computed before the next column)
RECURSIVE FlatIndex32(_, _, _, _)
FlatIndex32(pw, row, i, f) ==
  IF i > Len(row) \/ f # f THEN f
  ELSE FlatIndex32(pw, row, i + 1, Add32Wrap(f, Mul32Wrap(pw[i], row[i])))

\* to_flat[f], for f inside the array
ToFlatAt(s, f) == IF f \in DOMAIN s.to_flat THEN s.to_flat[f] ELSE 65535

\* Entry: powers[0] = 1
FlatEnter(degree, lambda) ==
  LET n == Len(lambda[1])
  IN  [lambda |-> lambda, degree |-> degree, n |-> n,
       pc |-> IF n = 0 THEN "alloc" ELSE "powers",
       powers |-> <<1>>, size |-> 0, to_flat |-> <<>>, from_flat |-> <<>>, k |-> 0]

\* powers[i+1] = powers[i]*(degree+1): a signed overflow either traps or wraps.
FlatPowers(s, outcome) ==
  LET i == Len(s.powers) - 1
      q == s.powers[i + 1]
  IN  IF Overflows32(q, s.degree + 1) /\ outcome = "trap"
      THEN [s EXCEPT !.pc = "crash"]
      ELSE [s EXCEPT !.powers = Append(s.powers, Mul32Wrap(q, s.degree + 1)),
                     !.pc = IF i + 1 = s.n THEN "alloc" ELSE "powers"]

\* Array<uint16_t> to_flat(powers.back(),false); to_flat.fill(-1);
FlatAlloc(s) ==
  LET size == s.powers[s.n + 1]
  IN  IF size < 0 THEN [s EXCEPT !.pc = "crash"]
      ELSE [s EXCEPT !.size = size, !.pc = IF Len(s.lambda) = 0 THEN "built" ELSE "fill"]

\* from_flat[k] = f; to_flat[f] = k; for one row k
FlatFill(s) ==
  LET f == FlatIndex32(s.powers, s.lambda[s.k + 1], 1, 0)
  IN  IF f < 0 \/ f >= s.size
      THEN [s EXCEPT !.pc = "corrupt"]                       \* a write outside to_flat
      ELSE [s EXCEPT !.from_flat = Append(s.from_flat, f),
                     !.to_flat = [g \in (DOMAIN s.to_flat) \cup {f} |->
                                    IF g = f THEN s.k % 65536 ELSE s.to_flat[g]],
                     !.k = s.k + 1,
                     !.pc = IF s.k + 1 = Len(s.lambda) THEN "built" ELSE "fill"]

\* The tables the map is built for: those of the interpolator's runs, and
\* the tables of degree 1 in up to MaxFlatVariables variables, which an
\* escalation that stays all zero reaches in round d = variables.
FlatInputs == InterpInputs \cup ({1} \X (1..MaxFlatVariables))

InitFlat ==
  /\ \E p \in FlatInputs :
       /\ p[1] >= 1
       /\ LET lambda == monomials(p[1], p[2])
          IN  Len(lambda) >= 1 /\ interp = FlatEnter(p[1], lambda)
  /\ mono = MonoIdle
  /\ call = CallIdle

FlatPowersStep ==
  /\ interp.pc = "powers"
  /\ \E outcome \in {"wrap", "trap"} : interp' = FlatPowers(interp, outcome)
  /\ UNCHANGED <<mono, call>>

FlatAllocStep ==
  /\ interp.pc = "alloc"
  /\ interp' = FlatAlloc(interp)
  /\ UNCHANGED <<mono, call>>

FlatFillStep ==
  /\ interp.pc = "fill"
  /\ interp' = FlatFill(interp)
  /\ UNCHANGED <<mono, call>>

NextFlat == FlatPowersStep \/ FlatAllocStep \/ FlatFillStep

SpecFlat == InitFlat /\ [][NextFlat]_vars

(***************************************************************************)
(* Properties of the interpolators, checked under SpecInterp.              *)
(***************************************************************************)
\* C4: after in_place_interpolating_polynomial has run on the values of
\* sum_j c_j x^lambda[j] at the lattice points x = lambda[k], A[k] = c[k]
\* exactly, for every k.
C4_RoundTrip ==
  (interp.pc = "interpolate" /\ interp.ip.pc = "done")
  => \A k \in 1..Len(interp.lambda) : interp.ip.A[k] = <<interp.coefs[k], 1>>

C4_Witness ==
  /\ interp.pc = "interpolate" /\ interp.ip.pc = "done"
  /\ interp.degree = 3 /\ Len(interp.lambda) = 10
  /\ interp.coefs[10] # 0 /\ interp.coefs[5] # 0 /\ interp.coefs[2] # 0

\* C5: for a univariate polynomial, the specialised routine run on
\* p(j) - p(0), j = 1..degree, leaves in A[k-1] exactly degree! times the
\* coefficient of x^k the general interpolator computes, for k = 1..degree.
C5_UnivariateAgrees ==
  (interp.pc # "idle" /\ interp.compared)
  => \A k \in 1..interp.degree :
       interp.values_z[k + 1] * interp.ip.A[k + 1][2]
         = Factorial(interp.degree) * interp.ip.A[k + 1][1]

C5_Witness ==
  /\ interp.pc = "done" /\ interp.compared /\ interp.degree = 4
  /\ interp.coefs[5] # 0 /\ interp.coefs[2] # 0 /\ interp.values_z[5] # 0

(***************************************************************************)
(* Properties of perturbed_sign, checked under Spec and FairSpec.          *)
(***************************************************************************)
\* sum over the levels v = from..Len(e) of e[v] * perturbation(v, X[i].x)
RECURSIVE LevelShift(_, _, _, _)
LevelShift(c, i, e, v) ==
  IF v > Len(e) THEN Zeros(c.m)
  ELSE VecAdd(VecScale(e[v], perturbation(c.m, c.key, v, c.X[i].x)),
              LevelShift(c, i, e, v + 1))

\* The predicate of the call at X + sum_v e[v] * Y_v
PolyAt(c, e) ==
  predicate(c.predicate, [i \in 1..Len(c.X) |-> VecAdd(c.X[i].y, LevelShift(c, i, e, 1))])

\* The predicate vanishes identically along the first L perturbation levels:
\* a polynomial of degree <= degree in e_1..e_L that is zero on the grid
\* {0..degree}^L is the zero polynomial.
VanishesAlong(c, L) == \A e \in [1..L -> 0..c.degree] : PolyAt(c, e) = 0

\* The first L along which the predicate does not vanish (MaxLevel + 1 if
\* there is none up to MaxLevel).
FirstNonvanishing(c) ==
  CHOOSE L \in 0..(MaxLevel + 1) :
    /\ L = MaxLevel + 1 \/ ~VanishesAlong(c, L)
    /\ \A K \in 0..(L - 1) : VanishesAlong(c, K)

\* T^power * f(Z / T) for the predicate f of p
ScaledPredicate(p, Z, T) ==
  IF p.kind = "affine"
  THEN Pow(p.c * T + AffineForm(p.w, [k \in 1..Len(Z) |-> Z[p.arg[k]]], 1), p.power)
  ELSE predicate(p, Z)

\* The sign of f(X + sum_v (s[v] / T) * Y_v)
ReferenceSign(c, T, s) ==
  Sgn(ScaledPredicate(c.predicate,
                      [i \in 1..Len(c.X) |-> VecAdd(VecScale(T, c.X[i].y), LevelShift(c, i, s, 1))],
                      T))

Fast(c) == IF c.result THEN 1 ELSE -1

ZeroPredicate(c) ==
  /\ c.predicate.kind = "affine" /\ c.predicate.c = 0
  /\ \A i \in 1..Len(c.predicate.w) : \A a \in 1..c.m : c.predicate.w[i][a] = 0

RECURSIVE PolyValue(_, _, _)
PolyValue(values, j, k) ==
  IF k > Len(values) THEN 0 ELSE values[k] * Pow(j, k) + PolyValue(values, j, k + 1)

C6_PermutationInvariant ==
  (call.pc = "returned" /\ call.callno = 2) => call.result = call.first

C6_Witness ==
  /\ call.pc = "returned" /\ call.callno = 2 /\ Len(call.X) = 2
  /\ call.X[1].x > call.X[2].x /\ call.d >= 1 /\ call.result = call.first

\* C7: in every round the vector applied to point i at level v is
\* perturbation(v, X[i].x): Y holds exactly those vectors, slab by slab, and
\* the values handed to the interpolators are the predicate at the points
\* built from them.
C7_PerturbationByLevelAndId ==
  LET n == Len(call.X)
  IN  /\ call.pc \in {"first_interp", "first_sign", "interp", "scan"}
         => /\ Len(call.Y) = n * (IF call.d = 0 THEN 1 ELSE call.d)
            /\ \A q \in 1..Len(call.Y) :
                 call.Y[q] = perturbation(call.m, call.key, ((q - 1) \div n) + 1,
                                          call.X[((q - 1) % n) + 1].x)
      /\ call.pc = "first_interp"
         => \A j \in 1..call.degree : call.values[j] = PolyAt(call, <<j>>)
      /\ call.pc = "interp"
         => \A j \in 1..Len(call.lambda) :
              call.values[j] = <<PolyAt(call, call.lambda[j]), 1>>

C7_Witness ==
  /\ call.pc = "interp" /\ call.d = 3 /\ Len(call.X) = 2 /\ Len(call.Y) = 6
  /\ call.X[1].x # 0 /\ call.Y[1] # call.Y[3]


(***************************************************************************)
(* The lower triangular pass of the univariate routine, under SpecInterp.  *)
(***************************************************************************)
\* The array the harness hands to the specialised routine: p(j) - p(0).
UniInput ==
  [j \in 1..interp.degree |-> interp.values_z[j + 1] - interp.values_z[1]]

\* C19 as stated: in the lower triangular pass, for each 0-based k from
\* degree-1 down to 0, A[k] plus the additions from the rows i < k is
\* multiplied by degree!/k!.
C19_FactorDegreeOverK ==
  interp.pc = "univariate"
  => \A k \in 0..interp.degree - 1 :
       LowerPass(UniInput, interp.degree - 1, 1)[k + 1]
         = LowerRow(UniInput, k, 0) * (Factorial(interp.degree) \div Factorial(k))

\* C19 amended: in the lower triangular pass, for each 0-based k from
\* degree-1 down to 0, A[k] plus the additions from the original rows i < k
\* is multiplied by degree!/(k+1)!: the factor is 1 for the last row and
\* degree! for the first.
C19_FactorDegreeOverKPlusOne ==
  interp.pc = "univariate"
  => \A k \in 0..interp.degree - 1 :
       LowerPass(UniInput, interp.degree - 1, 1)[k + 1]
         = LowerRow(UniInput, k, 0) * (Factorial(interp.degree) \div Factorial(k + 1))

C19_Witness ==
  /\ interp.pc = "univariate" /\ interp.degree = 4
  /\ \A k \in 0..3 : LowerRow(UniInput, k, 0) # 0
  /\ LowerPass(UniInput, 3, 1)[4] = LowerRow(UniInput, 3, 0)
  /\ LowerPass(UniInput, 3, 1)[1] = 24 * UniInput[1]

(***************************************************************************)
(* The order of the rounds of perturbed_sign, under Spec.                  *)
(***************************************************************************)
\* C13 as stated: the round that follows an all-zero round 1 is round d = 2
\* over monomials(degree, 2), and no round after round 1 interpolates over a
\* single variable again.
C13_SecondRoundIsTwo ==
  (call.pc \in {"interp", "scan"}) => (call.d >= 2 /\ Len(call.lambda[1]) >= 2)

\* C13 amended: an all-zero round 1 is followed by round d = 1 of the
\* escalation loop, which interpolates over monomials(degree, 1), a single
\* variable, with level 1 alone; round d + 1 follows an all-zero round d; and
\* round d interpolates over monomials(degree, d) with the d*n perturbation
\* vectors of levels 1..d.
C13_EscalationStartsAtOne ==
  [][/\ (call.pc = "first_sign" /\ call'.pc = "level")
          => (call'.d = 1 /\ \A j \in 1..Len(call.values) : call.values[j] = 0)
     /\ (call.pc = "scan" /\ call'.pc = "level")
          => (call'.d = call.d + 1 /\ \A j \in 1..Len(call.values) : call.values[j][1] = 0)
     /\ (call.pc = "level" /\ call'.pc = "interp")
          => /\ call'.d = call.d
             /\ call'.lambda = monomials(call.degree, call.d)
             /\ \A j \in 1..Len(call'.lambda) : Len(call'.lambda[j]) = call.d
             /\ Len(call'.Y) = call.d * Len(call.X)
             /\ \A q \in 1..Len(call.Y) : call'.Y[q] = call.Y[q]]_vars

C13_Witness ==
  /\ call.pc = "interp" /\ call.d = 1 /\ call.degree >= 2
  /\ call.lambda = monomials(call.degree, 1) /\ Len(call.lambda[1]) = 1
  /\ Len(call.Y) = Len(call.X)

(***************************************************************************)
(* The scan of an escalation round, under Spec.                            *)
(***************************************************************************)
\* The rows of the round whose interpolated coefficient is nonzero (1-based)
NonzeroRows == {j \in 1..Len(call.values) : call.values[j][1] # 0}

\* a comes before b when the rows are read from the newest variable down
RevLexLess(a, b) ==
  \E i \in 1..Len(a) : a[i] < b[i] /\ \A h \in (i + 1)..Len(a) : a[h] = b[h]

RevLexGreatest == CHOOSE j \in NonzeroRows :
                    \A q \in NonzeroRows \ {j} : RevLexLess(call.lambda[q], call.lambda[j])

RevLexLeast == CHOOSE j \in NonzeroRows :
                 \A q \in NonzeroRows \ {j} : RevLexLess(call.lambda[j], call.lambda[q])

\* C14 as stated: in an escalation round with nonzero coefficients the sign
\* returned is that of the nonzero coefficient whose row, read reversed, is
\* lexicographically greatest: maximal exponent of eps_d, ties broken by the
\* exponent of eps_(d-1), and so on.
C14_ReversedLexGreatest ==
  (call.pc = "scan" /\ NonzeroRows # {})
  => /\ ScanSign(call).pc = "returned"
     /\ ScanSign(call).sign = mpq_sgn(call.values[RevLexGreatest])

\* C14 amended: the sign returned is that of the nonzero coefficient whose
\* row, read reversed, is lexicographically least: minimal exponent of
\* eps_d, ties broken by the minimal exponent of eps_(d-1), and so on.
C14_ReversedLexLeast ==
  (call.pc = "scan" /\ NonzeroRows # {})
  => /\ ScanSign(call).pc = "returned"
     /\ ScanSign(call).sign_j + 1 = RevLexLeast
     /\ ScanSign(call).sign = mpq_sgn(call.values[RevLexLeast])
     /\ ScanSign(call).result = (mpq_sgn(call.values[RevLexLeast]) > 0)

C14_Witness ==
  /\ call.pc = "scan" /\ call.d = 2 /\ Cardinality(NonzeroRows) >= 2
  /\ RevLexLeast # RevLexGreatest
  /\ mpq_sgn(call.values[RevLexLeast]) # mpq_sgn(call.values[RevLexGreatest])
  /\ ScanSign(call).pc = "returned" /\ ScanSign(call).sign_j + 1 = RevLexLeast

\* The scan of the rows in the order given by the sequence order.
RECURSIVE ScanInOrder(_, _, _, _, _)
ScanInOrder(values, lambda, order, i, acc) ==
  IF i > Len(order) THEN acc
  ELSE LET j == order[i]
           s == mpq_sgn(values[j])
       IN  IF s # 0 /\ (acc[1] = 0 \/ monomial_less(lambda[acc[2] + 1], lambda[j]))
           THEN ScanInOrder(values, lambda, order, i + 1, <<s, j - 1>>)
           ELSE ScanInOrder(values, lambda, order, i + 1, acc)

C16_NonzeroRowsUseNewestLevel ==
  (call.pc = "scan" /\ VanishesAlong(call, 0))
  => \A j \in NonzeroRows : call.lambda[j][call.d] > 0

C16_Witness ==
  /\ call.pc = "scan" /\ VanishesAlong(call, 0) /\ call.d = 2
  /\ Cardinality(NonzeroRows) >= 2
  /\ \E j \in NonzeroRows : call.lambda[j][1] > 0 /\ call.lambda[j][2] > 0

(***************************************************************************)
(* The divided-difference phase, under SpecInterp.                         *)
(***************************************************************************)
\* alpha[k] of the self check: the multi-index of row k that is left after
\* the decrements the bookkeeping pair info[k] records.
Remaining(s, k) ==
  [i \in 1..s.n |->
     IF i - 1 < s.info[k + 1][1] THEN 0
     ELSE IF i - 1 = s.info[k + 1][1] THEN s.info[k + 1][2]
     ELSE s.lambda[k + 1][i]]

\* How often row k has been updated so far.
Updates(s, k) == SumSeq(s.lambda[k + 1]) - SumSeq(Remaining(s, k))

MinOf(a, b) == IF a < b THEN a ELSE b

\* Between two steps of pass s.pass: the rows above the cursor have been
\* updated in this pass if their total degree reaches it, the others not yet.
PassProgress(s) ==
  \A j \in 0..Len(s.lambda) - 1 :
    Updates(s, j) = MinOf(IF j > s.k THEN s.pass ELSE s.pass - 1, SumSeq(s.lambda[j + 1]))

\* One step of the phase, from s to t, at row k = s.k
UpdateStep(s, t) ==
  LET k     == s.k
      row   == s.lambda[k + 1]
      x     == t.info[k + 1][1]
      flat  == s.from_flat[k + 1] - powers(s.degree, x)
      child == s.to_flat[flat]
  IN  IF Updates(t, k) = Updates(s, k)
      THEN \* goto next_pass: no row from k down has a decrement left
           /\ \A j \in 0..k : SumSeq(s.lambda[j + 1]) < s.pass
           /\ \A j \in 0..k : SumSeq(Remaining(s, j)) = 0
           /\ t.A = s.A
      ELSE /\ Updates(t, k) = Updates(s, k) + 1
           /\ SumSeq(row) >= s.pass
           /\ flat >= 0 /\ child < k
           /\ s.lambda[child + 1] = [row EXCEPT ![x + 1] = row[x + 1] - 1]
           /\ Updates(s, child) = s.pass - 1
           /\ Remaining(t, child) = Remaining(t, k)
           /\ \A j \in 0..Len(s.lambda) - 1 : j # k => t.info[j + 1] = s.info[j + 1]
           /\ \A j \in 0..Len(s.lambda) - 1 : j # k => t.A[j + 1] = s.A[j + 1]

\* C17: in the divided-difference phase over a table of monomials(degree, n),
\* pass p = 1..degree updates exactly the rows of total degree >= p, once
\* each, and the early break skips no row with decrements left; at each
\* update of row k the child multi-index is in the table at an index smaller
\* than k, has not been updated in this pass, and its remaining multi-index
\* equals that of row k after the decrement.
C17_PassesUpdateRowsOnce ==
  /\ [](interp.pc = "interpolate"
          => /\ interp.ip.pc = "divided"
                  => (interp.ip.pass \in 1..interp.degree /\ PassProgress(interp.ip))
             /\ interp.ip.pc \in {"newton", "done"}
                  => \A j \in 0..Len(interp.lambda) - 1 :
                       Updates(interp.ip, j) = SumSeq(interp.lambda[j + 1])
             /\ interp.ip.pc # "crash")
  /\ [][(interp.pc = "interpolate" /\ interp.ip.pc = "divided"
           /\ interp'.pc = "interpolate")
          => UpdateStep(interp.ip, interp'.ip)]_vars

C17_Witness ==
  /\ interp.pc = "interpolate" /\ interp.ip.pc = "divided"
  /\ interp.degree = 3 /\ Len(interp.lambda) = 10 /\ interp.ip.pass = 3
  /\ interp.ip.k = 7
  /\ Updates(interp.ip, 9) = 3 /\ Updates(interp.ip, 8) = 3 /\ Updates(interp.ip, 7) = 2
  /\ Updates(interp.ip, 4) = 2 /\ Updates(interp.ip, 1) = 1

(***************************************************************************)
(* The flat index map, under SpecFlat.                                     *)
(***************************************************************************)
\* C18: for every table monomials accepts and every degree, the map is built
\* and to_flat[from_flat[k]] = k for every row k: the powers of degree+1 are
\* exact in their 32-bit ints and the row indices in their 16-bit entries.
C18_FlatMapExact ==
  /\ interp.pc \notin {"crash", "corrupt"}
  /\ \A i \in 1..Len(interp.powers) - 1 :
       /\ interp.powers[i + 1] > 0
       /\ interp.powers[i + 1] % (interp.degree + 1) = 0
       /\ interp.powers[i + 1] \div (interp.degree + 1) = interp.powers[i]
  /\ \A k \in 1..Len(interp.from_flat) :
       /\ interp.from_flat[k] = FlatIndex32(interp.powers, interp.lambda[k], 1, 0)
       /\ ToFlatAt(interp, interp.from_flat[k]) = k - 1

(***************************************************************************)
(* The life of the big-number slots, under SpecSlots.                      *)
(***************************************************************************)
SlotStates(st) == \A j \in 1..Len(call.values) : call.values[j].st = st

SlotCounts(i, c) ==
  \A j \in 1..Len(call.values) : call.values[j].inits = i /\ call.values[j].clears = c

\* C11: on every path of perturbed_sign on which no evaluation throws, each
\* slot is initialised exactly once before its first use, is not read or
\* written after it is cleared, and is cleared exactly once before the
\* return and before values is resized for the next round.
C11_SlotsInitialisedAndClearedOnce ==
  (call.pc # "threw")
  => /\ call.fault = "none" /\ call.lost = 0
     /\ \A j \in 1..Len(call.values) :
          /\ call.values[j].inits <= 1 /\ call.values[j].clears <= call.values[j].inits
          /\ (call.values[j].st = "raw") = (call.values[j].inits = 0)
          /\ (call.values[j].st = "cleared") = (call.values[j].clears = 1)
     /\ call.pc \in {"first_eval", "eval"}
          => \A j \in 1..Len(call.values) :
               call.values[j].st = IF j <= call.j THEN "live" ELSE "raw"
     /\ call.pc \in {"first_interp", "first_scan", "interp", "scan"}
          => (SlotStates("live") /\ SlotCounts(1, 0))
     /\ call.pc \in {"first_clear", "clear"}
          => \A j \in 1..Len(call.values) :
               call.values[j].st = IF j <= call.j THEN "cleared" ELSE "live"
     /\ call.pc \in {"first_return", "return", "returned", "resize"}
          => (SlotStates("cleared") /\ SlotCounts(1, 1))
     /\ call.pc = "returned" => call.sign # 0

C11_Witness ==
  /\ call.pc = "returned" /\ call.degree = 2 /\ call.d = 2 /\ Len(call.values) = 6
  /\ SlotStates("cleared") /\ SlotCounts(1, 1) /\ call.fault = "none"

\* C12: when an evaluation of the predicate throws inside perturbed_sign, in
\* round 1 or in an escalation round, every slot initialised so far has been
\* released by the time the exception leaves the function.
C12_ReleasedBeforePropagation ==
  (call.pc = "threw") => \A j \in 1..Len(call.values) : call.values[j].st # "live"
====
